---- MODULE Spec2Model ----
(***************************************************************************)
(* Game-tree search agents of 02-GameTrees/agents.py: the position         *)
(* evaluator, the move orderer, minimax with alpha-beta pruning and        *)
(* NegaScout, and the two agents' get_chosen_column.  The recursion is     *)
(* modelled by an explicit call stack per caller, one frame per call of    *)
(* minimax_ab / negascout, so that every intermediate window, score and    *)
(* recorded column of the code is a state of the model.                    *)
(*                                                                         *)
(* The State class (board, successor generation, win detection) is not     *)
(* part of the sources; it is modelled from the collaborator contract of   *)
(* the specification and from the bit layout documented at the top of      *)
(* agents.py (cell index = column * height + row).  A set of cell indices  *)
(* stands for a bit mask: (a & b) == 0 is a \cap b = {}.                   *)
(***************************************************************************)
EXTENDS Integers, Sequences, FiniteSets, TLC

VARIABLES board,        \* dimensions of the board the State class plays on
          game,         \* the position of the game in progress
          plies,        \* moves played by the baseline agent so far
          depth_arg,    \* the depth given on the command line
          max_depth,    \* module global, agents.py line 25
          max_player,   \* module global, agents.py line 26
          min_player,   \* module global, agents.py line 27
          call,         \* per caller: the get_chosen_column invocation
          stack         \* per caller: the frames of minimax_ab / negascout

vars == <<board, game, plies, depth_arg, max_depth, max_player, min_player, call, stack>>

globals == <<max_depth, max_player, min_player>>

(***************************************************************************)
(* Bounds of the model.                                                    *)
(***************************************************************************)
MaxPlies == 2       \* moves the baseline agent adds to an opening
MaxDepth == 3       \* largest depth argument on a board with many empty cells
MaxEndgame == 6     \* search to the game's end only with this few empty cells
ConcDepth == 1      \* largest depth argument of two overlapping calls

(***************************************************************************)
(* Values of the program.                                                  *)
(***************************************************************************)
Inf == 1000000          \* math.inf: above every score and every depth
None == "None"         \* Python's None where the other values are names
NoneNum == -2000000     \* Python's None where the other values are numbers
RED == "RED"
YEL == "YEL"
DRAW == "DRAW"
Callers == {1, 2}

StdBoard == [w |-> 7, h |-> 6]
SmallBoard == [w |-> 4, h |-> 4]

(***************************************************************************)
(* The State collaborator.                                                 *)
(***************************************************************************)
Cell(b, c, r) == c * b.h + r

LineCells(b, c, r, dc, dr) == {Cell(b, c + k * dc, r + k * dr) : k \in 0..3}

LineFits(b, c, r, dc, dr) ==
    /\ c + 3 * dc \in 0..(b.w - 1)
    /\ r + 3 * dr \in 0..(b.h - 1)

Directions == {<<1, 0>>, <<0, 1>>, <<1, 1>>, <<1, -1>>}

MasksOf(b) ==
    {LineCells(b, c, r, d[1], d[2]) :
        <<c, r, d>> \in {x \in (0..(b.w - 1)) \X (0..(b.h - 1)) \X Directions :
                            LineFits(b, x[1], x[2], x[3][1], x[3][2])}}

StdMasks == MasksOf(StdBoard)
SmallMasks == MasksOf(SmallBoard)

win_masks == IF board = StdBoard THEN StdMasks ELSE SmallMasks

EmptyState == [red |-> {}, yel |-> {}, next |-> RED]

get_checkers(state, player) == IF player = RED THEN state.red ELSE state.yel

get_next_on_move(state) == state.next

Occupied(state) == state.red \cup state.yel

ColumnHeight(state, c) ==
    Cardinality({r \in 0..(board.h - 1) : Cell(board, c, r) \in Occupied(state)})

get_possible_columns(state) ==
    LET free == {c \in 0..(board.w - 1) : ColumnHeight(state, c) < board.h}
    IN  [k \in 1..Cardinality(free) |->
            CHOOSE c \in free : Cardinality({d \in free : d < c}) = k - 1]

generate_successor_state(state, col) ==
    LET cell == Cell(board, col, ColumnHeight(state, col))
    IN  IF state.next = RED
        THEN [red |-> state.red \cup {cell}, yel |-> state.yel, next |-> YEL]
        ELSE [red |-> state.red, yel |-> state.yel \cup {cell}, next |-> RED]

get_state_status(state) ==
    IF \E m \in win_masks : m \subseteq state.red THEN RED
    ELSE IF \E m \in win_masks : m \subseteq state.yel THEN YEL
    ELSE IF Len(get_possible_columns(state)) = 0 THEN DRAW
    ELSE None

Empties(state) == board.w * board.h - Cardinality(Occupied(state))

(***************************************************************************)
(* Position evaluator and move orderer.                                    *)
(***************************************************************************)
count_tokens(checkers) == Cardinality({i \in 0..41 : i \in checkers})

EvaluationOwnLines(state, maxp, minp) ==
    LET status == get_state_status(state)
        max_player_tokens == get_checkers(state, maxp)
        min_player_tokens == get_checkers(state, minp)
        max_wins_cnt == Cardinality({m \in win_masks : m \cap min_player_tokens = {}})
        max_losses_cnt == Cardinality({m \in win_masks : m \cap min_player_tokens = {}
                                                         /\ m \cap max_player_tokens = {}})
    IN  IF status = maxp THEN 1000 - count_tokens(get_checkers(state, maxp))
        ELSE IF status = minp THEN -1000 + count_tokens(get_checkers(state, minp))
        ELSE IF status = DRAW THEN 0
        ELSE max_wins_cnt - max_losses_cnt

EvaluationNoWin(state, maxp, minp) ==
    LET status == get_state_status(state)
        max_player_tokens == get_checkers(state, maxp)
        min_player_tokens == get_checkers(state, minp)
        max_wins_cnt == Cardinality({m \in win_masks : m \cap min_player_tokens = {}})
        max_losses_cnt == Cardinality({m \in win_masks : m \cap max_player_tokens = {}})
    IN  IF status = DRAW THEN 0
        ELSE max_wins_cnt - max_losses_cnt

Evaluation(state, maxp, minp) ==
    LET status == get_state_status(state)
        max_player_tokens == get_checkers(state, maxp)
        min_player_tokens == get_checkers(state, minp)
        max_wins_cnt == Cardinality({m \in win_masks : m \cap min_player_tokens = {}})
        max_losses_cnt == Cardinality({m \in win_masks : m \cap max_player_tokens = {}})
    IN  IF status = maxp THEN 1000 - count_tokens(get_checkers(state, maxp))
        ELSE IF status = minp THEN -1000 + count_tokens(get_checkers(state, minp))
        ELSE IF status = DRAW THEN 0
        ELSE max_wins_cnt - max_losses_cnt

node_evaluation(state) == Evaluation(state, max_player, min_player)

col_priority_edges(column) == <<6, 4, 2, 0, 1, 3, 5>>[column + 1]

col_priority(column) == <<1, 3, 5, 6, 4, 2, 0>>[column + 1]

is_terminal_node(state) == get_state_status(state) # None

KeyGreaterAscending(k1, k2) == k1[1] < k2[1] \/ (k1[1] = k2[1] /\ k1[2] < k2[2])

\* sorted(columns, key = (evaluation of the successor, col_priority), reverse = True):
\* descending by key, columns of equal key in their original order.
KeyGreater(k1, k2) == k1[1] > k2[1] \/ (k1[1] = k2[1] /\ k1[2] > k2[2])

OrderedCols(state, maxp, minp) ==
    LET cols == get_possible_columns(state)
        n == Len(cols)
        keyed == {<<Evaluation(generate_successor_state(state, cols[k]), maxp, minp),
                    col_priority(cols[k]), k>> : k \in 1..n}
        before(u, t) ==
            KeyGreater(u, t) \/ (u[1] = t[1] /\ u[2] = t[2] /\ u[3] < t[3])
    IN  [p \in 1..n |->
            cols[(CHOOSE t \in keyed :
                     Cardinality({u \in keyed : before(u, t)}) = p - 1)[3]]]

SortedCols(state) == OrderedCols(state, max_player, min_player)

\* -alpha - 1 on Python numbers: math.inf absorbs the subtraction.
MinusOne(x) == IF x = Inf \/ x = -Inf THEN x ELSE x - 1

Max2(a, b) == IF a >= b THEN a ELSE b

Other(player) == IF player = YEL THEN RED ELSE YEL

(***************************************************************************)
(* Frames of the recursion.  pc is the place of the frame in its function: *)
(* "enter" before the test of line 152 / 189, "loop" at the head of the    *)
(* for loop, "call" while the call of line 165 / 177 / 202 / 207 runs and  *)
(* when it has returned to a frame that is on top again, "research"        *)
(* likewise for the call of line 210.                                      *)
(***************************************************************************)
Node(state, col) == [state |-> state, col |-> col, chosen_succ |-> NoneNum]

Frame(node, player, alpha, beta, depth) ==
    [state |-> node.state, col |-> node.col, chosen_succ |-> node.chosen_succ,
     player |-> player, alpha |-> alpha, beta |-> beta, depth |-> depth,
     pc |-> "enter", ismax |-> FALSE, other_player |-> None,
     sorted_cols |-> <<>>, idx |-> 0, score |-> 0, ret |-> 0]

IdleCall == [pc |-> "idle", agent |-> None, state |-> EmptyState, depth |-> 0,
             value |-> NoneNum, result |-> NoneNum]

Top(i) == stack[i][Len(stack[i])]

Running(i) == call[i].pc = "searching" /\ Len(stack[i]) > 0

SetTop(i, f) == [stack EXCEPT ![i] = [@ EXCEPT ![Len(@)] = f]]

Push(i, f, child) == [stack EXCEPT ![i] = Append([@ EXCEPT ![Len(@)] = f], child)]

\* return v from the top frame of caller i: to the calling frame, or, from the
\* root, to get_chosen_column, which returns root.chosen_succ (lines 66-67, 81-82)
ReturnValue(i, v) ==
    IF Len(stack[i]) = 1
    THEN /\ stack' = [stack EXCEPT ![i] = <<>>]
         /\ call' = [call EXCEPT ![i].pc = "done", ![i].value = v,
                                 ![i].result = Top(i).chosen_succ]
    ELSE /\ stack' = [stack EXCEPT ![i] =
                        [k \in 1..(Len(@) - 1) |->
                            IF k = Len(@) - 1
                            THEN [@[k] EXCEPT !.ret = v]
                            ELSE @[k]]]
         /\ call' = call

(***************************************************************************)
(* get_chosen_column, lines 57-64 and 72-79: set the three globals, build  *)
(* the root node and call the search with the full window at depth 0.      *)
(***************************************************************************)
Agents == {"MinimaxABAgent", "Negascout"}

\* the depth arguments tried on an opening: up to MaxDepth, and every depth
\* (0: to the end of the game) when few cells are empty
DepthArgs(state) ==
    {d \in 0..Max2(MaxDepth, MaxEndgame) :
        (d # 0 /\ d <= MaxDepth) \/ Empties(state) <= MaxEndgame}

get_chosen_column(i, agent, state, depth) ==
    /\ max_player' = get_next_on_move(state)
    /\ min_player' = Other(get_next_on_move(state))
    /\ max_depth' = IF depth # 0 THEN depth ELSE Inf
    /\ call' = [call EXCEPT ![i] = [pc |-> "searching", agent |-> agent,
                                    state |-> state, depth |-> depth,
                                    value |-> NoneNum, result |-> NoneNum]]
    /\ stack' = [stack EXCEPT ![i] =
                    <<Frame(Node(state, -1), get_next_on_move(state), -Inf, Inf, 0)>>]

\* the program asks an agent for the move of the position of the game
StartCall(agent) ==
    /\ \A j \in Callers : call[j].pc = "idle"
    /\ get_chosen_column(1, agent, game, depth_arg)
    /\ UNCHANGED <<board, game, plies, depth_arg>>

\* the program asks the other agent about the same position with the same depth
StartSecond ==
    /\ call[1].pc = "done"
    /\ call[2].pc = "idle"
    /\ get_chosen_column(2, CHOOSE a \in Agents : a # call[1].agent,
                         call[1].state, call[1].depth)
    /\ UNCHANGED <<board, game, plies, depth_arg>>

\* ExampleAgent.get_chosen_column, lines 49-52: any of the possible columns;
\* the program plays it
Move(c) ==
    /\ \A j \in Callers : call[j].pc = "idle"
    /\ plies < MaxPlies
    /\ ~is_terminal_node(game)
    /\ \E k \in DOMAIN get_possible_columns(game) : get_possible_columns(game)[k] = c
    /\ game' = generate_successor_state(game, c)
    /\ plies' = plies + 1
    /\ UNCHANGED <<board, depth_arg, globals, call, stack>>

(***************************************************************************)
(* Lines 152-153 and 189-190: a terminal position or the depth bound.      *)
(***************************************************************************)
IsLeaf(f) == is_terminal_node(f.state) \/ f.depth = max_depth

LeafValueBoundFirst(agent, f) ==
    LET e == IF f.depth = max_depth
             THEN EvaluationNoWin(f.state, max_player, min_player)
             ELSE node_evaluation(f.state)
    IN  IF agent = "MinimaxABAgent" THEN e
        ELSE e * (IF f.player = min_player THEN -1 ELSE 1)

LeafValueNoFlip(agent, f) == node_evaluation(f.state)

LeafValue(agent, f) ==
    IF agent = "MinimaxABAgent"
    THEN node_evaluation(f.state)
    ELSE node_evaluation(f.state) * (IF f.player = min_player THEN -1 ELSE 1)

Evaluate(i) ==
    /\ Running(i)
    /\ Top(i).pc = "enter"
    /\ IsLeaf(Top(i))
    /\ ReturnValue(i, LeafValue(call[i].agent, Top(i)))
    /\ UNCHANGED <<board, game, plies, depth_arg, globals>>

(***************************************************************************)
(* Lines 157-162 / 174 and 191-197: order the columns, start the loop.     *)
(***************************************************************************)
Expanded(agent, f) ==
    IF agent = "MinimaxABAgent"
    THEN [f EXCEPT !.sorted_cols = SortedCols(f.state), !.idx = 1, !.pc = "loop",
                   !.ismax = (f.player = max_player),
                   !.score = IF f.player = max_player THEN -Inf ELSE Inf]
    ELSE [f EXCEPT !.sorted_cols = SortedCols(f.state), !.idx = 1, !.pc = "loop",
                   !.other_player = IF f.player = min_player THEN max_player
                                                            ELSE min_player,
                   !.score = -Inf]

Expand(i) ==
    /\ Running(i)
    /\ Top(i).pc = "enter"
    /\ ~IsLeaf(Top(i))
    /\ stack' = SetTop(i, Expanded(call[i].agent, Top(i)))
    /\ UNCHANGED <<board, game, plies, depth_arg, globals, call>>

(***************************************************************************)
(* Lines 163-165, 175-177, 198-202 and 206-207: the call for the next      *)
(* column of the loop.                                                     *)
(***************************************************************************)
ChildFrame(agent, f) ==
    LET col == f.sorted_cols[f.idx]
        child == Node(generate_successor_state(f.state, col), col)
    IN  IF agent = "MinimaxABAgent"
        THEN Frame(child, IF f.ismax THEN min_player ELSE max_player,
                   f.alpha, f.beta, f.depth + 1)
        ELSE IF col = f.sorted_cols[1]
        THEN Frame(child, f.other_player, -f.beta, -f.alpha, f.depth + 1)
        ELSE Frame(child, f.other_player, MinusOne(-f.alpha), -f.alpha, f.depth + 1)

Descend(i) ==
    /\ Running(i)
    /\ Top(i).pc = "loop"
    /\ Top(i).idx <= Len(Top(i).sorted_cols)
    /\ stack' = Push(i, [Top(i) EXCEPT !.pc = "call"], ChildFrame(call[i].agent, Top(i)))
    /\ UNCHANGED <<board, game, plies, depth_arg, globals, call>>

\* lines 172, 184 and 217: the loop is over
Return(i) ==
    /\ Running(i)
    /\ Top(i).pc = "loop"
    /\ Top(i).idx > Len(Top(i).sorted_cols)
    /\ ReturnValue(i, Top(i).score)
    /\ UNCHANGED <<board, game, plies, depth_arg, globals>>

(***************************************************************************)
(* minimax_ab, lines 166-171 (maximizer) and 178-183 (minimizer).          *)
(***************************************************************************)
MaxStepLastBest(f, child_score, col) ==
    IF child_score >= f.score
    THEN [f EXCEPT !.score = child_score, !.alpha = child_score, !.chosen_succ = col]
    ELSE f

MaxStep(f, child_score, col) ==
    IF child_score > f.score
    THEN [f EXCEPT !.score = child_score, !.alpha = child_score, !.chosen_succ = col]
    ELSE f

MinStep(f, child_score, col) ==
    IF child_score < f.score
    THEN [f EXCEPT !.score = child_score, !.beta = child_score, !.chosen_succ = col]
    ELSE f

\* if alpha >= beta: break; otherwise the next column
LoopNext(f) ==
    IF f.alpha >= f.beta
    THEN [f EXCEPT !.pc = "loop", !.idx = Len(f.sorted_cols) + 1]
    ELSE [f EXCEPT !.pc = "loop", !.idx = f.idx + 1]

UpdateAB(i) ==
    /\ Running(i)
    /\ call[i].agent = "MinimaxABAgent"
    /\ Top(i).pc = "call"
    /\ LET f == Top(i)
           col == f.sorted_cols[f.idx]
       IN  stack' = SetTop(i, LoopNext(IF f.ismax THEN MaxStep(f, f.ret, col)
                                                   ELSE MinStep(f, f.ret, col)))
    /\ UNCHANGED <<board, game, plies, depth_arg, globals, call>>

(***************************************************************************)
(* negascout, lines 202-203 and 207-216.                                   *)
(***************************************************************************)
NeedsResearchOnTies(f) ==
    /\ f.pc = "call"
    /\ f.sorted_cols[f.idx] # f.sorted_cols[1]
    /\ f.alpha <= -f.ret
    /\ -f.ret < f.beta

\* line 209: the null-window probe of a later column landed inside the window
NeedsResearch(f) ==
    /\ f.pc = "call"
    /\ f.sorted_cols[f.idx] # f.sorted_cols[1]
    /\ f.alpha < -f.ret
    /\ -f.ret < f.beta

\* line 210: search the same column again with the full window
Research(i) ==
    /\ Running(i)
    /\ call[i].agent = "Negascout"
    /\ NeedsResearch(Top(i))
    /\ LET f == Top(i)
           col == f.sorted_cols[f.idx]
           child == Node(generate_successor_state(f.state, col), col)
       IN  stack' = Push(i, [f EXCEPT !.pc = "research"],
                         Frame(child, f.other_player, -f.beta, -f.alpha, f.depth + 1))
    /\ UNCHANGED <<board, game, plies, depth_arg, globals, call>>

RecordedAlways(f) == [f EXCEPT !.chosen_succ = f.sorted_cols[f.idx]]

\* lines 203 and 211: the first column and a re-searched column are recorded
Recorded(f) ==
    IF f.pc = "research" \/ f.sorted_cols[f.idx] = f.sorted_cols[1]
    THEN [f EXCEPT !.chosen_succ = f.sorted_cols[f.idx]]
    ELSE f

\* lines 213-214
Scored(f, child_score) ==
    LET score == Max2(f.score, child_score)
    IN  [f EXCEPT !.score = score, !.alpha = Max2(f.alpha, score)]

UpdateNS(i) ==
    /\ Running(i)
    /\ call[i].agent = "Negascout"
    /\ Top(i).pc \in {"call", "research"}
    /\ ~NeedsResearch(Top(i))
    /\ stack' = SetTop(i, LoopNext(Scored(Recorded(Top(i)), -Top(i).ret)))
    /\ UNCHANGED <<board, game, plies, depth_arg, globals, call>>

(***************************************************************************)
(* The program: a game on the small board, from an opening.                *)
(***************************************************************************)
RECURSIVE PlayFrom(_, _, _)
PlayFrom(b, state, cols) ==
    IF Len(cols) = 0 THEN state
    ELSE LET c == Head(cols)
             height == Cardinality({r \in 0..(b.h - 1) : Cell(b, c, r) \in Occupied(state)})
             cell == Cell(b, c, height)
         IN  PlayFrom(b,
                      IF state.next = RED
                      THEN [red |-> state.red \cup {cell}, yel |-> state.yel, next |-> YEL]
                      ELSE [red |-> state.red, yel |-> state.yel \cup {cell}, next |-> RED],
                      Tail(cols))

SmallOpenings ==
    {<<>>, <<0, 1, 0, 1, 0, 1>>, <<1, 0, 3, 2, 2, 1, 0, 2, 0, 1>>,
     <<3, 0, 0, 2, 2, 1, 3, 1, 0, 2>>}

StdOpenings == {<<>>}

Init ==
    /\ board = SmallBoard
    /\ game \in {PlayFrom(SmallBoard, EmptyState, o) : o \in SmallOpenings}
    /\ plies = 0
    /\ depth_arg \in DepthArgs(game)
    /\ max_depth = NoneNum
    /\ max_player = None
    /\ min_player = None
    /\ call = [i \in Callers |-> IdleCall]
    /\ stack = [i \in Callers |-> <<>>]

Step(i) ==
    \/ Evaluate(i)
    \/ Expand(i)
    \/ Descend(i)
    \/ Return(i)
    \/ UpdateAB(i)
    \/ Research(i)
    \/ UpdateNS(i)

Next ==
    \/ \E c \in 0..6 : Move(c)
    \/ \E agent \in Agents : StartCall(agent)
    \/ StartSecond
    \/ \E i \in Callers : Step(i)

Spec == Init /\ [][Next]_vars

\* the same program on the standard board
InitStd ==
    /\ board = StdBoard
    /\ game \in {PlayFrom(StdBoard, EmptyState, o) : o \in StdOpenings}
    /\ plies = MaxPlies - 1
    /\ depth_arg = 4
    /\ max_depth = NoneNum
    /\ max_player = None
    /\ min_player = None
    /\ call = [i \in Callers |-> IdleCall]
    /\ stack = [i \in Callers |-> <<>>]

SpecStd == InitStd /\ [][Next]_vars

(***************************************************************************)
(* Reference for the claims: exhaustive minimax without pruning, with the  *)
(* evaluator and the column order of the code and strict improvement as    *)
(* the tie-break.  ctx carries the maximizer, the minimizer and the depth  *)
(* bound of one search.                                                    *)
(***************************************************************************)
Context(state, depth) ==
    [maxp |-> state.next, minp |-> Other(state.next),
     bound |-> IF depth # 0 THEN depth ELSE Inf]

RECURSIVE FullValue(_, _, _)
FullValue(state, depth, ctx) ==
    IF get_state_status(state) # None \/ depth = ctx.bound
    THEN Evaluation(state, ctx.maxp, ctx.minp)
    ELSE LET cols == get_possible_columns(state)
             vals == {FullValue(generate_successor_state(state, cols[k]), depth + 1, ctx) :
                         k \in 1..Len(cols)}
         IN  IF state.next = ctx.maxp
             THEN CHOOSE v \in vals : \A u \in vals : u <= v
             ELSE CHOOSE v \in vals : \A u \in vals : u >= v

\* the exact depth-limited value of every column of the root, in the order
\* of the move orderer
RootValues(state, depth) ==
    LET ctx == Context(state, depth)
        cols == OrderedCols(state, ctx.maxp, ctx.minp)
    IN  {<<k, cols[k], FullValue(generate_successor_state(state, cols[k]), 1, ctx)>> :
            k \in 1..Len(cols)}

FullMinimax(state, depth) ==
    LET rv == RootValues(state, depth)
        best == CHOOSE t \in rv : \A u \in rv : u[3] < t[3] \/ (u[3] = t[3] /\ u[1] >= t[1])
    IN  [score |-> best[3], col |-> best[2]]

Done(i) == call[i].pc = "done"

Searched(i) == Done(i) /\ ~is_terminal_node(call[i].state)

\* a finished search, seen while no other search is under way
Settled(i) ==
    /\ Done(i)
    /\ \A j \in Callers : call[j].pc # "searching"
    /\ ~is_terminal_node(call[i].state)

\* C1: for every non-terminal root position and every depth bound, minimax_ab
\* and negascout, started at the root with the full window at depth 0, return
\* the same game value.
SameGameValue ==
    \A i \in Callers, j \in Callers :
        (/\ Done(i) /\ Done(j)
         /\ call[i].agent = "MinimaxABAgent" /\ call[j].agent = "Negascout"
         /\ call[i].state = call[j].state /\ call[i].depth = call[j].depth
         /\ ~is_terminal_node(call[i].state))
        => call[i].value = call[j].value

SameGameValueWitness ==
    /\ Searched(1) /\ Searched(2)
    /\ call[1].agent # call[2].agent
    /\ call[1].state = call[2].state /\ call[1].depth = call[2].depth
    /\ call[1].depth >= 3
    /\ call[1].value # 0

\* C2: on the small board, for every reachable non-terminal position and every
\* depth bound, the column recorded at the root by minimax_ab and the value it
\* returns are those of the unpruned minimax.
PruningKeepsMove ==
    \A i \in Callers :
        (Settled(i) /\ call[i].agent = "MinimaxABAgent")
        => LET full == FullMinimax(call[i].state, call[i].depth)
           IN  call[i].result = full.col /\ call[i].value = full.score

PruningKeepsMoveWitness ==
    /\ board = SmallBoard
    /\ Searched(1)
    /\ call[1].agent = "MinimaxABAgent"
    /\ call[1].depth = 0
    /\ Empties(call[1].state) = MaxEndgame

\* C3: for every non-terminal position in which some legal column wins at once
\* for the player to move, get_chosen_column with depth bound 1 returns, with
\* either agent, a column whose successor is a win for that player.
WinsAt(state, c) ==
    /\ \E k \in DOMAIN get_possible_columns(state) : get_possible_columns(state)[k] = c
    /\ get_state_status(generate_successor_state(state, c)) = state.next

TakesImmediateWin ==
    \A i \in Callers :
        (/\ Settled(i)
         /\ call[i].depth = 1
         /\ \E c \in 0..(board.w - 1) : WinsAt(call[i].state, c))
        => WinsAt(call[i].state, call[i].result)

TakesImmediateWinWitness ==
    /\ Searched(1) /\ Searched(2)
    /\ call[1].depth = 1
    /\ call[2].depth = 1
    /\ call[1].agent # call[2].agent
    /\ \E c \in 0..(board.w - 1) : WinsAt(call[1].state, c)
    /\ \E c \in 0..(board.w - 1) : ~WinsAt(call[1].state, c) /\ ColumnHeight(call[1].state, c) < board.h

\* C4: get_chosen_column on a position that is already terminal is rejected
\* before the recursive search is invoked and does not complete normally.
TerminalRootRejected ==
    \A i \in Callers :
        call[i].pc \in {"searching", "done"} => ~is_terminal_node(call[i].state)

\* C8: for every non-terminal position, the evaluation with A as maximizer and
\* B as minimizer is the negation of the evaluation with B as maximizer and A
\* as minimizer.
Antisymmetric(state) ==
    ~is_terminal_node(state)
    => Evaluation(state, RED, YEL) = -Evaluation(state, YEL, RED)

\* every node of a search is the top frame at "enter" once
EvaluationAntisymmetric ==
    /\ (\A i \in Callers : call[i].pc = "idle") => Antisymmetric(game)
    /\ \A i \in Callers :
          (Running(i) /\ Top(i).pc = "enter") => Antisymmetric(Top(i).state)

EvaluationAntisymmetricWitness ==
    \E i \in Callers :
        /\ Running(i)
        /\ Top(i).pc = "enter"
        /\ ~is_terminal_node(Top(i).state)
        /\ Evaluation(Top(i).state, RED, YEL) > 0
        /\ Evaluation(Top(i).state, YEL, RED) < 0

\* C6: in minimax_ab and in negascout a node whose position is terminal is
\* scored with the decisive terminal score (1000 minus the winner's tokens for a
\* maximizer win, -1000 plus the winner's tokens for a minimizer win, 0 for a
\* draw; sign-flipped in negascout when the minimizer is to move), never with
\* the winnable-lines heuristic, also when its depth equals the depth bound.
Decisive(state, maxp) ==
    LET status == get_state_status(state)
    IN  IF status = maxp THEN 1000 - Cardinality(get_checkers(state, maxp))
        ELSE IF status = Other(maxp)
        THEN -1000 + Cardinality(get_checkers(state, Other(maxp)))
        ELSE 0

DecisiveFor(agent, state, maxp) ==
    IF agent = "Negascout" /\ state.next = Other(maxp)
    THEN -Decisive(state, maxp)
    ELSE Decisive(state, maxp)

\* the node whose call has just returned to frame f, the top of its stack
ReturnedChild(f) == generate_successor_state(f.state, f.sorted_cols[f.idx])

TerminalScoredDecisively ==
    \A i \in Callers :
        /\ (Done(i) /\ is_terminal_node(call[i].state))
           => call[i].value = DecisiveFor(call[i].agent, call[i].state, call[i].state.next)
        /\ (Running(i) /\ Top(i).pc \in {"call", "research"}
                       /\ is_terminal_node(ReturnedChild(Top(i))))
           => Top(i).ret = DecisiveFor(call[i].agent, ReturnedChild(Top(i)),
                                       call[i].state.next)

TerminalScoredDecisivelyWitness ==
    \E i \in Callers :
        /\ Running(i)
        /\ call[i].agent = "Negascout"
        /\ Top(i).pc = "call"
        /\ Top(i).depth + 1 = call[i].depth
        /\ get_state_status(ReturnedChild(Top(i))) = call[i].state.next
        /\ ReturnedChild(Top(i)).next = Other(call[i].state.next)

\* C7: on the empty standard board with the first player to move and depth
\* bound 4, get_chosen_column returns the centre column, index 3, with the
\* alpha-beta agent and with the NegaScout agent.
CentreOpening ==
    \A i \in Callers :
        (Done(i) /\ board = StdBoard /\ call[i].state = EmptyState /\ call[i].depth = 4)
        => call[i].result = 3

CentreOpeningWitness ==
    /\ board = StdBoard
    /\ Done(1) /\ Done(2)
    /\ call[1].agent # call[2].agent
    /\ call[1].state = EmptyState /\ call[2].state = EmptyState
    /\ call[1].depth = 4 /\ call[2].depth = 4

\* C9: when negascout returns at the root, the recorded column is a legal
\* column whose exact depth-limited value is the returned value and the first
\* column of the move orderer with that value; a later column replaces the
\* recorded one only when its exact value is strictly greater than the best so far.
ExactOf(state, depth, col) ==
    (CHOOSE t \in RootValues(state, depth) : t[2] = col)[3]

RootColumnExact(i) ==
    LET rv == RootValues(call[i].state, call[i].depth)
    IN  \E t \in rv :
            /\ t[2] = call[i].result
            /\ t[3] = call[i].value
            /\ \A u \in rv : u[1] < t[1] => u[3] # call[i].value

ReplacesRootColumn(i) ==
    /\ call[i].agent = "Negascout"
    /\ Len(stack[i]) = 1
    /\ Len(stack'[i]) = 1
    /\ stack[i][1].chosen_succ # NoneNum
    /\ stack'[i][1].chosen_succ # stack[i][1].chosen_succ

NegascoutRootColumn ==
    /\ [](\A i \in Callers :
            (Settled(i) /\ call[i].agent = "Negascout") => RootColumnExact(i))
    /\ [][\A i \in Callers :
            ReplacesRootColumn(i)
            => ExactOf(call[i].state, call[i].depth, stack'[i][1].chosen_succ)
                   > stack[i][1].score]_vars

NegascoutRootColumnWitness ==
    /\ Settled(1)
    /\ call[1].agent = "Negascout"
    /\ call[1].depth >= 2
    /\ call[1].result # OrderedCols(call[1].state, call[1].state.next,
                                    Other(call[1].state.next))[1]

\* C10: within one minimax_ab call the window only narrows: at a maximizer node
\* alpha is never below the alpha passed in by the caller, at a minimizer node
\* beta is never above the beta passed in.
PassedAlpha(i, k) == IF k = 1 THEN -Inf ELSE stack[i][k - 1].alpha

PassedBeta(i, k) == IF k = 1 THEN Inf ELSE stack[i][k - 1].beta

WindowOnlyNarrows ==
    \A i \in Callers :
        call[i].agent = "MinimaxABAgent"
        => \A k \in DOMAIN stack[i] :
              stack[i][k].pc \in {"loop", "call"}
              => IF stack[i][k].ismax
                 THEN stack[i][k].alpha >= PassedAlpha(i, k)
                 ELSE stack[i][k].beta <= PassedBeta(i, k)

(***************************************************************************)
(* Two callers.  The globals of lines 25-27 belong to the module, so a     *)
(* second get_chosen_column that starts while the first one is searching   *)
(* writes the parameters the first one reads.  Each action of a caller is  *)
(* taken atomically; the interleavings of the code are at least these.     *)
(***************************************************************************)
StartOverlapping(agent, depth, state) ==
    /\ call[1].pc = "searching"
    /\ call[1].depth \in 1..ConcDepth
    /\ call[2].pc = "idle"
    /\ depth \in 1..ConcDepth
    /\ ~is_terminal_node(call[1].state)
    /\ \/ state = call[1].state
       \/ \E k \in DOMAIN get_possible_columns(call[1].state) :
             state = generate_successor_state(call[1].state,
                                              get_possible_columns(call[1].state)[k])
    /\ get_chosen_column(2, agent, state, depth)
    /\ UNCHANGED <<board, game, plies, depth_arg>>

Successors(state) ==
    {generate_successor_state(state, get_possible_columns(state)[k]) :
        k \in DOMAIN get_possible_columns(state)}

NextConc ==
    \/ Next
    \/ \E agent \in Agents, depth \in 1..ConcDepth :
          \E state \in {call[1].state} \cup Successors(call[1].state) :
             StartOverlapping(agent, depth, state)

InitConc ==
    /\ board = SmallBoard
    /\ game = PlayFrom(SmallBoard, EmptyState, <<0, 1, 0, 1, 0, 1>>)
    /\ plies = MaxPlies - 1
    /\ depth_arg \in 1..MaxDepth
    /\ max_depth = NoneNum
    /\ max_player = None
    /\ min_player = None
    /\ call = [i \in Callers |-> IdleCall]
    /\ stack = [i \in Callers |-> <<>>]

SpecConc == InitConc /\ [][NextConc]_vars

\* C5: the search parameters of one search stay constant from the start of a
\* get_chosen_column call to its return under any interleaving with another,
\* independent call with a different player to move or depth bound, and each
\* of the two searches returns the column it returns when run alone.
ParametersOf(i) ==
    <<IF call[i].depth # 0 THEN call[i].depth ELSE Inf,
      call[i].state.next, Other(call[i].state.next)>>

AloneColumn(i) ==
    IF is_terminal_node(call[i].state) THEN NoneNum
    ELSE FullMinimax(call[i].state, call[i].depth).col

IndependentSearches ==
    \A i \in Callers :
        /\ call[i].pc = "searching" => globals = ParametersOf(i)
        /\ (Done(i) /\ \A j \in Callers : call[j].pc # "searching")
           => call[i].result = AloneColumn(i)

====
